---- MODULE Spec2Model ----
(***************************************************************************)
(* AntennaLab: the standing-wave node calculator of                        *)
(* src/lib/physics/nodescalculator.ts, driven by the antenna model that    *)
(* the page keeps up to date.                                              *)
(*                                                                         *)
(* Numbers.  Every length and position is an exact integer number of       *)
(* millimetres.  Wire lengths and wavelengths are multiples of 100 mm, so  *)
(* that length/2, (n+0.5)*pi/k, n*pi/k and (feedPosition-0.5)*length are   *)
(* all whole millimetres and the divisions below are exact.                *)
(* The wave number k is carried as the wavelength 2*pi/k it stands for,    *)
(* hence pi/k = wavelength/2.  feedPosition is carried as its numerator    *)
(* over FeedDen (a percentage): 50 is 0.5, 0 is 0, 100 is 1.               *)
(* A ratio such as the electrical length is a pair [num, den], den > 0.    *)
(* Resistances and reactances are whole centi-ohms (0.01 ohm):             *)
(* 15 ohm is 1500, 73.1 ohm is 7310, 50000 ohm is 5000000.                 *)
(***************************************************************************)
EXTENDS Integers, Sequences, FiniteSets, TLC

\* ---- bounds of the model ------------------------------------------------
MaxShortLen == 3
MaxLongLen == 5
MaxLambda == 5

\* wire lengths in mm: short wires in 0.1 m steps, long wires in 1 m steps
Lengths == {100 * j : j \in 1..MaxShortLen} \cup {1000 * j : j \in 1..MaxLongLen}
\* wavelengths in mm, 0.1 m steps
Wavelengths == {100 * j : j \in 1..MaxLambda}
\* feed positions in percent: both ends, the centre and off-centre feeds
FeedPercents == {0, 25, 50, 75, 100}

\* ---- program constants --------------------------------------------------
MAX_HARMONICS == 8
\* 0.1 m, in mm
EDGE_BUFFER == 100
\* feedPosition = feedPoint / 100
FeedDen == 100

\* PHYSICS_CONSTANTS, in centi-ohm
RESONANCE_REACTANCE_THRESHOLD == 1500
\* RESONANCE_PERCENTAGE_THRESHOLD = 0.2 = 1 / 5
RESONANCE_PERCENTAGE_DIVISOR == 5
\* FREE_SPACE_IMPEDANCE = 376.730313668 ohm, cut to whole centi-ohm
FREE_SPACE_IMPEDANCE == 37673
\* PHYSICS_CONSTANTS.SPEED_OF_LIGHT, m/s
SPEED_OF_LIGHT == 299792458
\* the literals of getResonanceGuidance, in centi-ohm
GUIDANCE_REACTANCE_LIMIT == 1500
GUIDANCE_IMPEDANCE == 37700
\* PHYSICS_CONSTANTS of the impedance regimes, in centi-ohm
DIPOLE_BASE_RESISTANCE == 7310
HIGH_IMPEDANCE_LIMIT == 1500000
CURRENT_NULL_RESISTANCE == 200000
HALF_WAVE_END_FED_RESISTANCE == 250000
END_FED_HIGH_IMPEDANCE == 500000
\* PHYSICS_LIMITS, in centi-ohm
MIN_RESISTANCE == 10
MAX_RESISTANCE == 5000000
MIN_REACTANCE == -500000
MAX_REACTANCE == 500000
\* PHYSICS_CONSTANTS.STANDARD_IMPEDANCE, in centi-ohm
STANDARD_IMPEDANCE == 5000
\* PHYSICS_LIMITS.MIN_SWR and MAX_SWR
MIN_SWR == 1
MAX_SWR == 999
\* feedPosition as the calculator takes it, in ten-thousandths
FeedScale == 10000

None == [none |-> TRUE]
Null == [null |-> TRUE]

\* impedances the model may report, in centi-ohm
Resistances == {5000, 10000}
Reactances == {-500000, -2000, -1501, -1500, 0, 1499, 1500, 1501, 2000}
ImpedanceSamples == [resistance : Resistances, reactance : Reactances]

VARIABLES
    model,      \* the AntennaModel fields the calculators read
    result,     \* what calculateNodesAndAntinodes returned last
    impedance,  \* what antennaModel.calculateImpedance() returns at present
    guidance,   \* what getResonanceGuidance returned last
    form,       \* the values of the design form (react-hook-form)
    antennaData,\* the page's antennaData state
    rendered,   \* what the last render of the page saw
    phase,      \* where React is: "idle", "render" or "effect"
    event       \* the control the user touched last

pageVars == <<form, antennaData, rendered, phase, event>>

VARIABLES
    cache,      \* the memo of the impedance calculator: key -> impedance
    call,       \* the last calculateImpedance call: its inputs, hit or miss
    swr         \* the last calculateSWR call: its inputs and its value

calcVars == <<cache, call, swr>>

VARIABLES
    scene,      \* what the visualization's NodesCalculator returned last
    panel,      \* the four counts the performance panel computed last
    isAnimating,    \* Home state
    animationTime,  \* Home state, degrees
    timers,         \* how many interval timers are running
    interval,       \* whether the animation effect that ran last holds a timer
    effectDue,      \* isAnimating changed and the animation effect has yet to run
    lastTick,       \* the last update a timer tick made to animationTime
    detail,         \* what getDetailedResonanceInfo returned last
    visibility,     \* Home state: which overlays of the 3D scene are shown
    markers,        \* how many feed-point marker meshes the 3D scene holds
    effectDeps      \* the dependencies each update effect of the scene ran with last

animationVars == <<isAnimating, animationTime, timers, interval, effectDue, lastTick>>

markerVars == <<visibility, markers, effectDeps>>

viewVars == <<scene, panel, animationVars, detail, markerVars>>

vars == <<model, result, impedance, guidance, pageVars, calcVars, viewVars>>

\* ---- the antenna model as the calculator reads it -----------------------
DEFAULT_WIRE_DIAMETER == 20
NullNetwork == "null"

Models ==
    [length : Lengths, wavelength : Wavelengths, feedPosition : FeedPercents,
     wireDiameter : {DEFAULT_WIRE_DIAMETER}, matchingNetwork : {NullNetwork}]

\* model.electricalLength = length / wavelength, as a ratio
ElectricalLength(m) == [num |-> m.length, den |-> m.wavelength]

\* model.waveNumber = 2*pi/wavelength, carried as the wavelength
WaveNumber(m) == m.wavelength

\* ---- helpers of the list results ----------------------------------------
Range(s) == {s[i] : i \in 1..Len(s)}

Abs(x) == IF x < 0 THEN -x ELSE x

\* [...new Set(xs)]: insertion order, first occurrence kept
RECURSIVE NewSet(_, _)
NewSet(xs, acc) ==
    IF xs = <<>> THEN acc
    ELSE IF Head(xs) \in Range(acc) THEN NewSet(Tail(xs), acc)
         ELSE NewSet(Tail(xs), Append(acc, Head(xs)))

\* one insertion step of .sort((a, b) => a - b)
RECURSIVE SortInsert(_, _)
SortInsert(x, sorted) ==
    IF sorted = <<>> THEN <<x>>
    ELSE IF x - Head(sorted) < 0 THEN <<x>> \o sorted
         ELSE <<Head(sorted)>> \o SortInsert(x, Tail(sorted))

\* xs.sort((a, b) => a - b)
RECURSIVE SortAscending(_)
SortAscending(xs) ==
    IF xs = <<>> THEN <<>>
    ELSE SortInsert(Head(xs), SortAscending(Tail(xs)))

\* the sort left out
DedupUnsorted(xs) == NewSet(xs, <<>>)

\* [...new Set(xs)].sort((a, b) => a - b)
DedupSorted(xs) == SortAscending(NewSet(xs, <<>>))

\* ((n + 0.5) * Math.PI) / k
HalfOddPosition(n, k) == ((2 * n + 1) * k) \div 4

\* (n * Math.PI) / k
WholePosition(n, k) == (n * k) \div 2

\* the length not halved
HalfLengthWhole(length) == length

\* length / 2
HalfLength(length) == length \div 2

\* ---- _calculateCurrentNodes ---------------------------------------------
RECURSIVE CurrentNodesLoop(_, _, _, _)
CurrentNodesLoop(n, acc, halfLength, k) ==
    IF n < MAX_HARMONICS
    THEN LET nodePosition == HalfOddPosition(n, k)
             pushed == IF nodePosition < halfLength - EDGE_BUFFER
                       THEN acc.out \o <<nodePosition, -nodePosition>>
                       ELSE acc.out
         IN  CurrentNodesLoop(n + 1, [out |-> pushed, iters |-> acc.iters + 1],
                              halfLength, k)
    ELSE acc

\* the loop started at n = 1
CalculateCurrentNodesFromOne(length, k, feedPosition) ==
    LET halfLength == HalfLength(length)
        ends == <<-halfLength, halfLength>>
        done == CurrentNodesLoop(1, [out |-> ends, iters |-> 0], halfLength, k)
    IN  [out |-> DedupSorted(done.out), iters |-> done.iters]

\* an end-fed wire given a node at the far end only
CalculateCurrentNodesFarEnd(length, k, feedPosition) ==
    LET halfLength == HalfLength(length)
        ends == IF feedPosition = 0 \/ feedPosition = FeedDen
                THEN (IF feedPosition = 0 THEN <<halfLength>> ELSE <<-halfLength>>)
                ELSE <<-halfLength, halfLength>>
        done == CurrentNodesLoop(0, [out |-> ends, iters |-> 0], halfLength, k)
    IN  [out |-> DedupSorted(done.out), iters |-> done.iters]

CalculateCurrentNodes(length, k, feedPosition) ==
    LET halfLength == HalfLength(length)
        ends == IF feedPosition = 0 \/ feedPosition = FeedDen
                THEN <<-halfLength, halfLength>>
                ELSE <<-halfLength, halfLength>>
        done == CurrentNodesLoop(0, [out |-> ends, iters |-> 0], halfLength, k)
    IN  [out |-> DedupSorted(done.out), iters |-> done.iters]

\* ---- _calculateCurrentAntinodes -----------------------------------------
\* the loop bound taken inclusively
RECURSIVE CurrentAntinodesLoopInclusive(_, _, _, _)
CurrentAntinodesLoopInclusive(n, acc, halfLength, k) ==
    IF n <= MAX_HARMONICS
    THEN LET antinodePosition == WholePosition(n, k)
             pushed == IF antinodePosition < halfLength - EDGE_BUFFER
                       THEN acc.out \o <<antinodePosition, -antinodePosition>>
                       ELSE acc.out
         IN  CurrentAntinodesLoopInclusive(n + 1, [out |-> pushed, iters |-> acc.iters + 1],
                                           halfLength, k)
    ELSE acc

RECURSIVE CurrentAntinodesLoop(_, _, _, _)
CurrentAntinodesLoop(n, acc, halfLength, k) ==
    IF n < MAX_HARMONICS
    THEN LET antinodePosition == WholePosition(n, k)
             pushed == IF antinodePosition < halfLength - EDGE_BUFFER
                       THEN acc.out \o <<antinodePosition, -antinodePosition>>
                       ELSE acc.out
         IN  CurrentAntinodesLoop(n + 1, [out |-> pushed, iters |-> acc.iters + 1],
                                  halfLength, k)
    ELSE acc

\* the two ends taken for one another
FeedCoordinateSwapped(length, feedPosition) ==
    LET halfLength == HalfLength(length)
    IN  IF 2 * feedPosition = FeedDen THEN 0
        ELSE IF feedPosition = 0 \/ feedPosition = FeedDen
             THEN (IF feedPosition = 0 THEN halfLength ELSE -halfLength)
             ELSE ((FeedDen - 2 * feedPosition) * length) \div (2 * FeedDen)

\* the feed coordinate pushed first by _calculateCurrentAntinodes
FeedCoordinate(length, feedPosition) ==
    LET halfLength == HalfLength(length)
    IN  IF 2 * feedPosition = FeedDen THEN 0
        ELSE IF feedPosition = 0 \/ feedPosition = FeedDen
             THEN (IF feedPosition = 0 THEN -halfLength ELSE halfLength)
             ELSE ((2 * feedPosition - FeedDen) * length) \div (2 * FeedDen)

\* the centre branch pushing nothing
CalculateCurrentAntinodesNoCentre(length, k, feedPosition) ==
    LET halfLength == HalfLength(length)
        first == IF 2 * feedPosition = FeedDen THEN <<>>
                 ELSE <<FeedCoordinate(length, feedPosition)>>
        done == CurrentAntinodesLoop(1, [out |-> first, iters |-> 0], halfLength, k)
    IN  [out |-> DedupSorted(done.out), iters |-> done.iters]

CalculateCurrentAntinodes(length, k, feedPosition) ==
    LET halfLength == HalfLength(length)
        first == <<FeedCoordinate(length, feedPosition)>>
        done == CurrentAntinodesLoop(1, [out |-> first, iters |-> 0], halfLength, k)
    IN  [out |-> DedupSorted(done.out), iters |-> done.iters]

\* ---- _calculateVoltageNodes ---------------------------------------------
RECURSIVE VoltageNodesLoop(_, _, _, _)
VoltageNodesLoop(n, acc, halfLength, k) ==
    IF n < MAX_HARMONICS
    THEN LET nodePosition == WholePosition(n, k)
             pushed == IF nodePosition < halfLength - EDGE_BUFFER
                       THEN acc.out \o <<nodePosition, -nodePosition>>
                       ELSE acc.out
         IN  VoltageNodesLoop(n + 1, [out |-> pushed, iters |-> acc.iters + 1],
                              halfLength, k)
    ELSE acc

\* the loop started at n = 0
CalculateVoltageNodesFromZero(length, k, feedPosition) ==
    LET halfLength == HalfLength(length)
        first == IF 2 * feedPosition = FeedDen THEN <<0>> ELSE <<>>
        done == VoltageNodesLoop(0, [out |-> first, iters |-> 0], halfLength, k)
    IN  [out |-> DedupSorted(done.out), iters |-> done.iters]

CalculateVoltageNodes(length, k, feedPosition) ==
    LET halfLength == HalfLength(length)
        first == IF 2 * feedPosition = FeedDen THEN <<0>> ELSE <<>>
        done == VoltageNodesLoop(1, [out |-> first, iters |-> 0], halfLength, k)
    IN  [out |-> DedupSorted(done.out), iters |-> done.iters]

\* ---- _calculateVoltageAntinodes -----------------------------------------
RECURSIVE VoltageAntinodesLoop(_, _, _, _)
VoltageAntinodesLoop(n, acc, halfLength, k) ==
    IF n < MAX_HARMONICS
    THEN LET antinodePosition == HalfOddPosition(n, k)
             pushed == IF /\ antinodePosition < halfLength - EDGE_BUFFER
                          /\ antinodePosition > EDGE_BUFFER
                       THEN acc.out \o <<antinodePosition, -antinodePosition>>
                       ELSE acc.out
         IN  VoltageAntinodesLoop(n + 1, [out |-> pushed, iters |-> acc.iters + 1],
                                  halfLength, k)
    ELSE acc

\* the loop without the centre buffer, as in _calculateCurrentNodes
CalculateVoltageAntinodesNoBuffer(length, k, feedPosition) ==
    LET halfLength == HalfLength(length)
        ends == <<-halfLength, halfLength>>
        done == CurrentNodesLoop(0, [out |-> ends, iters |-> 0], halfLength, k)
    IN  [out |-> DedupSorted(done.out), iters |-> done.iters]

CalculateVoltageAntinodes(length, k, feedPosition) ==
    LET halfLength == HalfLength(length)
        ends == <<-halfLength, halfLength>>
        done == VoltageAntinodesLoop(0, [out |-> ends, iters |-> 0], halfLength, k)
    IN  [out |-> DedupSorted(done.out), iters |-> done.iters]

\* ---- _getHarmonicNumber -------------------------------------------------
\* Math.floor in place of Math.round
MathFloor(num, den) == num \div den

\* Math.round(num / den): the nearest integer, a tie going up
MathRound(num, den) == (2 * num + den) \div (2 * den)

\* the harmonic wrapped into the harmonic count
GetHarmonicNumberWrapped(electricalLength) ==
    LET harmonic == MathRound(2 * electricalLength.num, electricalLength.den) % MAX_HARMONICS
    IN  IF harmonic <= 0 THEN 1 ELSE harmonic

GetHarmonicNumber(electricalLength) ==
    LET harmonic == MathRound(2 * electricalLength.num, electricalLength.den)
    IN  IF harmonic <= 0 THEN 1 ELSE harmonic

\* ---- resonance ----------------------------------------------------------
\* model.calculateImpedance()
ModelCalculateImpedance(m) == impedance

\* model.wavelength
ModelWavelength(m) == m.wavelength

\* Math.max(a, b)
MathMax(a, b) == IF a >= b THEN a ELSE b

\* PhysicsUtils.isResonant: |reactance| < max(15, 0.2 * resistance)
PhysicsUtilsIsResonant(z) ==
    RESONANCE_PERCENTAGE_DIVISOR * Abs(z.reactance)
        < MathMax(RESONANCE_PERCENTAGE_DIVISOR * RESONANCE_REACTANCE_THRESHOLD,
                  z.resistance)

\* the fixed threshold alone
NodesIsResonantFixed(m) ==
    Abs(ModelCalculateImpedance(m).reactance) < RESONANCE_REACTANCE_THRESHOLD

\* _isResonant
NodesIsResonant(m) == PhysicsUtilsIsResonant(ModelCalculateImpedance(m))

\* what a getResonanceGuidance call read from the model
GuidanceArgs(m) ==
    [impedance |-> ModelCalculateImpedance(m), wavelength |-> ModelWavelength(m),
     length |-> m.length]

\* resonance decided by the fixed reactance limit alone
GetResonanceGuidanceByFlag(m) ==
    LET z == ModelCalculateImpedance(m)
        reactance == z.reactance
        currentLength == m.length
        wire == [num |-> Abs(reactance) * ModelWavelength(m),
                 den |-> GUIDANCE_IMPEDANCE * 10]
    IN  IF Abs(reactance) < GUIDANCE_REACTANCE_LIMIT
        THEN [none |-> FALSE, status |-> "Resonant", guidance |-> "WellMatched",
              lengthAdjustment |-> Null, args |-> GuidanceArgs(m)]
        ELSE IF reactance < 0
        THEN [none |-> FALSE, status |-> "Not Resonant", guidance |-> "TooShortAdd",
              lengthAdjustment |-> wire,
              targetLength |-> [base |-> currentLength, sign |-> 1, delta |-> wire],
              reactance |-> reactance, args |-> GuidanceArgs(m)]
        ELSE [none |-> FALSE, status |-> "Not Resonant", guidance |-> "TooLongRemove",
              lengthAdjustment |-> wire,
              targetLength |-> [base |-> currentLength, sign |-> -1, delta |-> wire],
              reactance |-> reactance, args |-> GuidanceArgs(m)]

\* getResonanceGuidance.  lengthAdjustment = (|reactance| / 377) *
\* wavelength * 0.1 is the ratio |reactance| * wavelength / (377 * 10), in
\* mm; targetLength = currentLength +/- lengthAdjustment is kept as its
\* base, sign and delta; the guidance text is kept as its kind.
GetResonanceGuidance(m) ==
    LET z == ModelCalculateImpedance(m)
        reactance == z.reactance
        isResonant == PhysicsUtilsIsResonant(z)
        currentLength == m.length
        wire == [num |-> Abs(reactance) * ModelWavelength(m),
                 den |-> GUIDANCE_IMPEDANCE * 10]
    IN  IF isResonant
        THEN [none |-> FALSE, status |-> "Resonant", guidance |-> "WellMatched",
              lengthAdjustment |-> Null, args |-> GuidanceArgs(m)]
        ELSE IF reactance < -GUIDANCE_REACTANCE_LIMIT
        THEN [none |-> FALSE, status |-> "Not Resonant", guidance |-> "TooShortAdd",
              lengthAdjustment |-> wire,
              targetLength |-> [base |-> currentLength, sign |-> 1, delta |-> wire],
              reactance |-> reactance, args |-> GuidanceArgs(m)]
        ELSE IF reactance > GUIDANCE_REACTANCE_LIMIT
        THEN [none |-> FALSE, status |-> "Not Resonant", guidance |-> "TooLongRemove",
              lengthAdjustment |-> wire,
              targetLength |-> [base |-> currentLength, sign |-> -1, delta |-> wire],
              reactance |-> reactance, args |-> GuidanceArgs(m)]
        ELSE [none |-> FALSE, status |-> "Not Resonant", guidance |-> "NearlyResonant",
              lengthAdjustment |-> [num |-> 0, den |-> 1],
              reactance |-> reactance, args |-> GuidanceArgs(m)]

\* ---- calculateNodesAndAntinodes -----------------------------------------
CalculateNodesAndAntinodes(m) ==
    LET length == m.length
        feedPosition == m.feedPosition
        k == WaveNumber(m)
        electricalLength == ElectricalLength(m)
        currentNodes == CalculateCurrentNodes(length, k, feedPosition)
        currentAntinodes == CalculateCurrentAntinodes(length, k, feedPosition)
        voltageNodes == CalculateVoltageNodes(length, k, feedPosition)
        voltageAntinodes == CalculateVoltageAntinodes(length, k, feedPosition)
    IN  [ none |-> FALSE,
          args |-> [length |-> length, k |-> k, feedPosition |-> feedPosition,
                    electricalLength |-> electricalLength,
                    impedance |-> ModelCalculateImpedance(m)],
          current |-> [nodes |-> currentNodes.out, antinodes |-> currentAntinodes.out],
          voltage |-> [nodes |-> voltageNodes.out, antinodes |-> voltageAntinodes.out],
          harmonic |-> GetHarmonicNumber(electricalLength),
          isResonant |-> NodesIsResonant(m),
          iterations |-> [currentNodes |-> currentNodes.iters,
                          currentAntinodes |-> currentAntinodes.iters,
                          voltageNodes |-> voltageNodes.iters,
                          voltageAntinodes |-> voltageAntinodes.iters] ]

\* ---- the page: form, antennaData and the model-update effect -------------
\* The form and antennaData hold elementLength in mm, frequency in kHz,
\* feedPoint in percent, wireDiameter in tenths of a mm, elementSpacing in
\* hundredths of a wavelength.
DefaultValues ==
    [frequency |-> 14200, elements |-> 1, elementLength |-> 10600,
     elementSpacing |-> 25, feedPoint |-> 50, wireDiameter |-> 20,
     balunRatio |-> "None"]

\* a || b on a number: 0 is falsy
OrNumber(a, b) == IF a = 0 THEN b ELSE a

\* a || b on a string: "" is falsy
OrString(a, b) == IF a = "" THEN b ELSE a

\* the callback of the form.watch subscription: the antennaData it sets
WatchCallback(values) ==
    [frequency |-> OrNumber(values.frequency, 14200),
     elements |-> OrNumber(values.elements, 1),
     elementLength |-> OrNumber(values.elementLength, 10600),
     elementSpacing |-> OrNumber(values.elementSpacing, 25),
     feedPoint |-> OrNumber(values.feedPoint, 50),
     wireDiameter |-> OrNumber(values.wireDiameter, 20),
     balunRatio |-> OrString(values.balunRatio, "None")]

\* onSubmit: the antennaData it sets
OnSubmit(values) ==
    [frequency |-> values.frequency,
     elements |-> values.elements,
     elementLength |-> values.elementLength,
     elementSpacing |-> values.elementSpacing,
     feedPoint |-> values.feedPoint,
     wireDiameter |-> values.wireDiameter,
     balunRatio |-> values.balunRatio]

GetMatchingNetworkPassThrough(balunRatio) == balunRatio

GetMatchingNetwork(balunRatio) ==
    CASE balunRatio = "1:1" -> "use1to1Balun"
      [] balunRatio = "4:1" -> "use4to1Balun"
      [] balunRatio = "9:1" -> "use9to1UnUn"
      [] balunRatio = "49:1" -> "use49to1UnUn"
      [] OTHER -> NullNetwork

\* the wavelength c / frequency in whole mm that a frequency in kHz stands for
WavelengthOf(frequency) == SPEED_OF_LIGHT \div frequency

UpdatedModelCentred(data) ==
    [length |-> data.elementLength,
     wavelength |-> WavelengthOf(data.frequency),
     feedPosition |-> data.feedPoint - 50,
     wireDiameter |-> data.wireDiameter,
     matchingNetwork |-> GetMatchingNetwork(data.balunRatio)]

\* the body of the model-update effect: the model it leaves behind
UpdatedModel(data) ==
    [length |-> data.elementLength,
     wavelength |-> WavelengthOf(data.frequency),
     feedPosition |-> data.feedPoint,
     wireDiameter |-> data.wireDiameter,
     matchingNetwork |-> GetMatchingNetwork(data.balunRatio)]

\* the page once mounted with nothing touched
PageAtRest ==
    /\ form = DefaultValues
    /\ antennaData = DefaultValues
    /\ rendered = None
    /\ phase = "idle"
    /\ event = "none"
    /\ cache = <<>>
    /\ call = None
    /\ swr = None
    /\ scene = None
    /\ panel = None
    /\ isAnimating = FALSE
    /\ animationTime = 0
    /\ timers = 0
    /\ interval = FALSE
    /\ effectDue = FALSE
    /\ lastTick = None
    /\ detail = None
    /\ visibility = [current |-> TRUE, voltage |-> TRUE, nodes |-> TRUE, eField |-> FALSE]
    /\ markers = 0
    /\ effectDeps = [scene |-> <<>>, animation |-> <<>>]

\* ---- the state machine --------------------------------------------------
\* the half-wave dipole the page starts from reports about 73.1 + 0j ohm
DefaultImpedance == [resistance |-> 7310, reactance |-> 0]

Init ==
    /\ model \in Models
    /\ result = None
    /\ impedance = DefaultImpedance
    /\ guidance = None
    /\ PageAtRest

\* A change of one form field reaches the model through the page's
\* model-update effect: antennaModel.length = antennaData.elementLength
SetLength ==
    /\ \E length \in Lengths : model' = [model EXCEPT !.length = length]
    /\ UNCHANGED <<result, impedance, guidance, pageVars, calcVars, viewVars>>

\* antennaModel.frequency = antennaData.frequency (carried as the wavelength)
SetFrequency ==
    /\ \E wavelength \in Wavelengths : model' = [model EXCEPT !.wavelength = wavelength]
    /\ UNCHANGED <<result, impedance, guidance, pageVars, calcVars, viewVars>>

\* antennaModel.feedPosition = antennaData.feedPoint / 100
SetFeedPosition ==
    /\ \E feedPoint \in FeedPercents : model' = [model EXCEPT !.feedPosition = feedPoint]
    /\ UNCHANGED <<result, impedance, guidance, pageVars, calcVars, viewVars>>

\* a consumer calls calculateNodesAndAntinodes(model)
Calculate ==
    /\ result' = CalculateNodesAndAntinodes(model)
    /\ UNCHANGED <<model, impedance, guidance, pageVars, calcVars, viewVars>>

Next == SetLength \/ SetFrequency \/ SetFeedPosition \/ Calculate

Spec == Init /\ [][Next]_vars

\* ---- resonance: the model's impedance as an input ------------------------
\* a one-metre wire fed at the centre, reporting any of the sample impedances
InitResonance ==
    /\ model \in [length : {1000}, wavelength : Wavelengths, feedPosition : {50},
                  wireDiameter : {DEFAULT_WIRE_DIAMETER}, matchingNetwork : {NullNetwork}]
    /\ impedance \in ImpedanceSamples
    /\ result = None
    /\ guidance = None
    /\ PageAtRest

\* antennaModel.wireDiameter = antennaData.wireDiameter: the model then
\* reports another impedance at the same length and wavelength
Retune ==
    /\ \E z \in ImpedanceSamples : impedance' = z
    /\ UNCHANGED <<model, result, guidance, pageVars, calcVars, viewVars>>

\* a consumer calls getResonanceGuidance(model)
Guide ==
    /\ guidance' = GetResonanceGuidance(model)
    /\ UNCHANGED <<model, result, impedance, pageVars, calcVars, viewVars>>

NextResonance == Retune \/ Calculate \/ Guide

SpecResonance == InitResonance /\ [][NextResonance]_vars

\* ---- the page in use -----------------------------------------------------
\* MATCHING_NETWORKS of constants.ts
MATCHING_NETWORKS ==
    [use1to1Balun |-> [ratio |-> 1], use4to1Balun |-> [ratio |-> 4],
     use9to1UnUn |-> [ratio |-> 9], use49to1UnUn |-> [ratio |-> 49]]

\* the example designs of AntennaExamples, in the units of the form
Examples ==
    << [frequency |-> 14200, elements |-> 1, elementLength |-> 500, elementSpacing |-> 25,
        feedPoint |-> 50, wireDiameter |-> 20, balunRatio |-> "1:1"],
       [frequency |-> 7100, elements |-> 1, elementLength |-> 500, elementSpacing |-> 25,
        feedPoint |-> 33, wireDiameter |-> 25, balunRatio |-> "4:1"],
       [frequency |-> 28400, elements |-> 3, elementLength |-> 500, elementSpacing |-> 20,
        feedPoint |-> 50, wireDiameter |-> 60, balunRatio |-> "1:1"],
       [frequency |-> 3750, elements |-> 1, elementLength |-> 500, elementSpacing |-> 25,
        feedPoint |-> 100, wireDiameter |-> 20, balunRatio |-> "49:1"],
       [frequency |-> 146000, elements |-> 1, elementLength |-> 250, elementSpacing |-> 25,
        feedPoint |-> 100, wireDiameter |-> 30, balunRatio |-> "1:1"],
       [frequency |-> 144100, elements |-> 5, elementLength |-> 500, elementSpacing |-> 25,
        feedPoint |-> 50, wireDiameter |-> 40, balunRatio |-> "1:1"],
       [frequency |-> 435000, elements |-> 1, elementLength |-> 750, elementSpacing |-> 25,
        feedPoint |-> 25, wireDiameter |-> 20, balunRatio |-> "1:1"],
       [frequency |-> 223500, elements |-> 1, elementLength |-> 490, elementSpacing |-> 25,
        feedPoint |-> 25, wireDiameter |-> 10, balunRatio |-> "1:1"],
       [frequency |-> 915000, elements |-> 1, elementLength |-> 500, elementSpacing |-> 25,
        feedPoint |-> 50, wireDiameter |-> 15, balunRatio |-> "1:1"],
       [frequency |-> 433000, elements |-> 1, elementLength |-> 250, elementSpacing |-> 25,
        feedPoint |-> 100, wireDiameter |-> 10, balunRatio |-> "1:1"],
       [frequency |-> 144390, elements |-> 1, elementLength |-> 500, elementSpacing |-> 25,
        feedPoint |-> 50, wireDiameter |-> 20, balunRatio |-> "1:1"],
       [frequency |-> 14074, elements |-> 6, elementLength |-> 450, elementSpacing |-> 30,
        feedPoint |-> 100, wireDiameter |-> 40, balunRatio |-> "4:1"],
       [frequency |-> 10368000, elements |-> 1, elementLength |-> 600, elementSpacing |-> 25,
        feedPoint |-> 50, wireDiameter |-> 5, balunRatio |-> "1:1"],
       [frequency |-> 3400000, elements |-> 4, elementLength |-> 490, elementSpacing |-> 50,
        feedPoint |-> 50, wireDiameter |-> 8, balunRatio |-> "1:1"],
       [frequency |-> 5760000, elements |-> 8, elementLength |-> 250, elementSpacing |-> 25,
        feedPoint |-> 50, wireDiameter |-> 10, balunRatio |-> "1:1"],
       [frequency |-> 24048000, elements |-> 1, elementLength |-> 500, elementSpacing |-> 25,
        feedPoint |-> 50, wireDiameter |-> 3, balunRatio |-> "1:1"] >>

\* the values handleSelectExample resets the form to
ExampleValues(example) ==
    [frequency |-> example.frequency,
     elements |-> example.elements,
     elementLength |-> example.elementLength,
     elementSpacing |-> example.elementSpacing,
     feedPoint |-> example.feedPoint,
     wireDiameter |-> OrNumber(example.wireDiameter, 20),
     balunRatio |-> OrString(example.balunRatio, "1:1")]

\* formSchema accepts the values (the zod resolver of handleSubmit)
FormSchema(values) ==
    /\ values.frequency >= 1000 /\ values.frequency <= 10000000
    /\ values.elements >= 1 /\ values.elements <= 20
    /\ values.elementLength >= 10 /\ values.elementLength <= 50000
    /\ values.elementSpacing >= 10 /\ values.elementSpacing <= 500
    /\ values.feedPoint >= 0 /\ values.feedPoint <= 100
    /\ values.wireDiameter >= 1 /\ values.wireDiameter <= 100

\* positions the sliders are moved to, and the balun check boxes
SliderLengths == {10600, 10610}
SliderFrequencies == {14200, 14300}
SliderFeeds == {0, 1, 50, 100}
SliderWires == {20, 21}
BalunRatios == {"1:1", "4:1", "9:1", "49:1"}

\* the page after its first commit: the model-update effect has run once
InitPage ==
    /\ PageAtRest
    /\ model = UpdatedModel(antennaData)
    /\ result = None
    /\ impedance = DefaultImpedance
    /\ guidance = None

\* field.onChange(v): the form takes the value and the form.watch
\* subscription sets antennaData, which schedules a render
FieldChange(values, control) ==
    /\ phase = "idle"
    /\ form' = values
    /\ antennaData' = WatchCallback(values)
    /\ phase' = "render"
    /\ event' = control
    /\ UNCHANGED <<model, rendered, result, impedance, guidance, calcVars, viewVars>>

MoveLengthSlider ==
    \E v \in SliderLengths : FieldChange([form EXCEPT !.elementLength = v], "length")

MoveFrequencySlider ==
    \E v \in SliderFrequencies : FieldChange([form EXCEPT !.frequency = v], "frequency")

MoveFeedSlider ==
    \E v \in SliderFeeds : FieldChange([form EXCEPT !.feedPoint = v], "feed")

MoveWireSlider ==
    \E v \in SliderWires : FieldChange([form EXCEPT !.wireDiameter = v], "wire")

\* the checked prop of the check box of one ratio
BoxChecked(ratio) == form.balunRatio = ratio

OnCheckedChangeKeep(value, ratio, checked) == IF checked THEN ratio ELSE value

\* onCheckedChange of the check box of one ratio: the new field value
OnCheckedChange(value, ratio, checked) ==
    IF checked THEN ratio ELSE IF value = ratio THEN "None" ELSE value

\* the user clicks the check box of one ratio: a checked box gets unchecked,
\* an unchecked one checked
ToggleBalun ==
    \E ratio \in BalunRatios :
        LET checked == ~BoxChecked(ratio)
        IN  FieldChange([form EXCEPT !.balunRatio = OnCheckedChange(@, ratio, checked)],
                        (IF checked THEN "check " ELSE "uncheck ") \o ratio)

\* handleSelectExample: form.reset, then handleSubmit(onSubmit), which calls
\* onSubmit only for values formSchema accepts; whether the reset alone
\* reaches the form.watch subscription is left open
SelectExample ==
    /\ phase = "idle"
    /\ \E i \in 1..Len(Examples) :
         LET values == ExampleValues(Examples[i])
         IN  /\ form' = values
             /\ IF FormSchema(values)
                   THEN antennaData' = OnSubmit(values)
                   ELSE antennaData' \in {WatchCallback(values), antennaData}
    /\ phase' = "render"
    /\ event' = "example"
    /\ UNCHANGED <<model, rendered, result, impedance, guidance, calcVars, viewVars>>

\* the body of Home runs: the derived values are read from antennaModel
Render ==
    /\ phase = "render"
    /\ rendered' = [data |-> antennaData, model |-> model]
    /\ phase' = "effect"
    /\ UNCHANGED <<model, form, antennaData, event, result, impedance, guidance, calcVars, viewVars>>

\* after the commit the model-update effect runs
ModelUpdateEffect ==
    /\ phase = "effect"
    /\ model' = UpdatedModel(antennaData)
    /\ phase' = "idle"
    /\ UNCHANGED <<form, antennaData, rendered, event, result, impedance, guidance, calcVars, viewVars>>

NextPage ==
    \/ MoveLengthSlider
    \/ MoveFrequencySlider
    \/ MoveFeedSlider
    \/ MoveWireSlider
    \/ ToggleBalun
    \/ Render
    \/ ModelUpdateEffect

SpecPage == InitPage /\ [][NextPage]_vars

\* the page with designs loaded from the examples, then fed and matched by hand
NextExamples ==
    \/ SelectExample
    \/ MoveFeedSlider
    \/ ToggleBalun
    \/ Render
    \/ ModelUpdateEffect

SpecExamples == InitPage /\ [][NextExamples]_vars

\* ---- the impedance calculator ---------------------------------------------
\* calculateImpedance(length, frequency, feedPosition, wireDiameter): length
\* in mm, frequency in kHz, feedPosition in ten-thousandths, wireDiameter
\* in tenths of a mm.  The values of sin, cos, tan and log10 that the
\* formulas use are inputs of a call (terms), in thousandths; a correction
\* term is in centi-ohm.

\* bound: the number of keys the memo may hold
MaxCached == 1

CalcLengths == {50, 250, 300, 500, 1000}
CalcFrequencies == {299792}
CalcFeeds == {0, 2500, 4600, 5000, 5004}
CalcWires == {20}
ImpedanceArgs ==
    [length : CalcLengths, frequency : CalcFrequencies,
     feedPosition : CalcFeeds, wireDiameter : CalcWires]

TermSamples ==
    { [sinBeta |-> 10, cosBeta |-> 1000, cosKL |-> -1000, tanHalfBeta |-> 50000,
       cosOffset |-> 100, log10 |-> 4000, correction |-> 500],
      [sinBeta |-> -10, cosBeta |-> 1000, cosKL |-> -1000, tanHalfBeta |-> -50000,
       cosOffset |-> -100, log10 |-> 2000, correction |-> -300],
      [sinBeta |-> 1000, cosBeta |-> 10, cosKL |-> -1000, tanHalfBeta |-> 1000,
       cosOffset |-> 1000, log10 |-> 3000, correction |-> 0],
      [sinBeta |-> 707, cosBeta |-> 707, cosKL |-> 10, tanHalfBeta |-> 414,
       cosOffset |-> 707, log10 |-> 3000, correction |-> 100] }

\* a / b cut toward zero, b # 0
Quotient(a, b) ==
    IF (a < 0) = (b < 0) THEN Abs(a) \div Abs(b) ELSE -(Abs(a) \div Abs(b))

ClampNone(v, lo, hi) == v

\* PhysicsUtils.clamp
Clamp(v, lo, hi) == IF v < lo THEN lo ELSE IF v > hi THEN hi ELSE v

MathMin(a, b) == IF a <= b THEN a ELSE b

\* the largest r with r * r <= n, for n the square of a factor in [1, 1.2]
SquareRoot(n) == CHOOSE r \in 1000..1100 : r * r <= n /\ n < (r + 1) * (r + 1)

\* |sin(pi * num / den)| < 0.001: num/den is within 0.001/pi of an integer
SinIsNull(num, den) ==
    LET r == num % den
    IN  3142 * MathMin(r, den - r) < den

\* r / c^2 for a cosine c in thousandths
OverCosSquared(r, c) == (((r * 1000) \div Abs(c)) * 1000) \div Abs(c)

\* the centre-fed regimes (step 3): length and wavelength in mm
CenterFedImpedance(length, wavelength, terms) ==
    IF 10 * length < wavelength
    THEN [resistance |-> MathMax((19739 * length * length) \div (wavelength * wavelength),
                                 MIN_RESISTANCE),
          reactance |-> -((FREE_SPACE_IMPEDANCE * (terms.log10 - 577)) \div 6283)]
    ELSE IF Abs(20 * length - 10 * wavelength) < wavelength
    THEN [resistance |-> DIPOLE_BASE_RESISTANCE, reactance |-> terms.correction]
    ELSE IF SinIsNull(length, wavelength)
    THEN [resistance |-> CURRENT_NULL_RESISTANCE, reactance |-> 0]
    ELSE [resistance |->
              (((DIPOLE_BASE_RESISTANCE * Abs(terms.sinBeta)) \div 1000)
                  * Abs(terms.sinBeta)) \div 1000,
          reactance |->
              Quotient(4310 * (terms.cosBeta - terms.cosKL), terms.sinBeta)
                  + terms.correction]

\* the end-fed regimes (step 4)
EndFedImpedance(length, wavelength, terms) ==
    IF Abs(100 * length - 25 * wavelength) < 2 * wavelength
    THEN [resistance |-> DIPOLE_BASE_RESISTANCE \div 2, reactance |-> terms.correction]
    ELSE IF Abs(100 * length - 50 * wavelength) < 2 * wavelength
    THEN [resistance |-> HALF_WAVE_END_FED_RESISTANCE, reactance |-> 0]
    ELSE IF SinIsNull(2 * length, wavelength)
    THEN [resistance |-> END_FED_HIGH_IMPEDANCE, reactance |-> 0]
    ELSE [resistance |->
              MathMin(OverCosSquared(DIPOLE_BASE_RESISTANCE, terms.cosBeta),
                      HIGH_IMPEDANCE_LIMIT),
          reactance |->
              Clamp(Quotient(FREE_SPACE_IMPEDANCE * terms.tanHalfBeta, 1000),
                    MIN_REACTANCE, MAX_REACTANCE)]

\* the off-centre regime (step 5), from the centre-fed result
OffCenterImpedance(length, wavelength, feedPosition, terms) ==
    LET centerFed == CenterFedImpedance(length, wavelength, terms)
        offset == Abs(feedPosition - FeedScale \div 2)
    IN  IF 10 * offset < FeedScale
        THEN [resistance |->
                  centerFed.resistance
                      + (centerFed.resistance * 2 * offset) \div FeedScale,
              reactance |->
                  Quotient(Quotient(centerFed.reactance
                                        * SquareRoot(100 * (FeedScale + 2 * offset)),
                                    1000) * terms.cosOffset, 1000)]
        ELSE [resistance |-> OverCosSquared(centerFed.resistance, terms.cosOffset),
              reactance |->
                  IF terms.cosOffset < 0 THEN -centerFed.reactance
                                         ELSE centerFed.reactance]

\* steps 1 to 5: the impedance before the limits are applied
RawImpedance(args, terms) ==
    LET wavelength == WavelengthOf(args.frequency)
    IN  IF 2 * args.feedPosition = FeedScale
        THEN CenterFedImpedance(args.length, wavelength, terms)
        ELSE IF args.feedPosition \in {0, FeedScale}
        THEN EndFedImpedance(args.length, wavelength, terms)
        ELSE OffCenterImpedance(args.length, wavelength, args.feedPosition, terms)

\* steps 1 to 6: a fresh computation
ComputeImpedance(args, terms) ==
    LET raw == RawImpedance(args, terms)
    IN  [resistance |-> Clamp(raw.resistance, MIN_RESISTANCE, MAX_RESISTANCE),
         reactance |-> Clamp(raw.reactance, MIN_REACTANCE, MAX_REACTANCE)]

\* step 7: length, frequency and feedPosition to 3 decimals, wireDiameter to 1
CacheKey(args) ==
    <<args.length, args.frequency, MathRound(args.feedPosition, 10), args.wireDiameter>>

InitImpedance ==
    /\ model = UpdatedModel(DefaultValues)
    /\ result = None
    /\ impedance = DefaultImpedance
    /\ guidance = None
    /\ PageAtRest

\* calculateImpedance: a cached key returns the memo's value, any other
\* key is computed and stored
CalculateImpedanceCall ==
    /\ \E args \in ImpedanceArgs, terms \in TermSamples :
         LET key == CacheKey(args)
         IN  IF key \in DOMAIN cache
             THEN /\ impedance' = cache[key]
                  /\ cache' = cache
                  /\ call' = [args |-> args, terms |-> terms, hit |-> TRUE]
             ELSE /\ Cardinality(DOMAIN cache) < MaxCached
                  /\ impedance' = ComputeImpedance(args, terms)
                  /\ cache' = (key :> ComputeImpedance(args, terms)) @@ cache
                  /\ call' = [args |-> args, terms |-> terms, hit |-> FALSE]
    /\ UNCHANGED <<model, result, guidance, pageVars, swr, viewVars>>

NextImpedance == CalculateImpedanceCall

SpecImpedance == InitImpedance /\ [][NextImpedance]_vars

\* ---- the standing-wave ratio ----------------------------------------------
\* impedances handed to calculateSWR, in centi-ohm
SwrResistances == {10, 2500, 5000, 10000, 20000}
SwrReactances == {-10000, -2500, 0, 2500, 10000}
SwrSamples == [resistance : SwrResistances, reactance : SwrReactances]

\* the largest r with r * r <= n, for n in 0..10000
MagnitudeRoot(n) == CHOOSE r \in 0..100 : r * r <= n /\ n < (r + 1) * (r + 1)

\* |Gamma|^2 = |Z - Z0|^2 / |Z + Z0|^2 in ten-thousandths
GammaSquared(squareDiff, squareSum) == squareDiff \div (squareSum \div 10000)

\* (1 + |Gamma|) / (1 - |Gamma|) as a ratio, kept within MIN_SWR and MAX_SWR;
\* |Gamma| in hundredths
SwrOfGamma(gammaSquared) ==
    IF gammaSquared >= 10000
    THEN [num |-> MAX_SWR, den |-> 1]
    ELSE LET gamma == MagnitudeRoot(gammaSquared)
         IN  IF 100 + gamma > MAX_SWR * (100 - gamma)
             THEN [num |-> MAX_SWR, den |-> 1]
             ELSE IF 100 + gamma < MIN_SWR * (100 - gamma)
             THEN [num |-> MIN_SWR, den |-> 1]
             ELSE [num |-> 100 + gamma, den |-> 100 - gamma]

CalculateSWRShifted(resistance, reactance) ==
    SwrOfGamma(GammaSquared(
        (resistance - STANDARD_IMPEDANCE) * (resistance - STANDARD_IMPEDANCE)
            + (reactance - STANDARD_IMPEDANCE) * (reactance - STANDARD_IMPEDANCE),
        (resistance + STANDARD_IMPEDANCE) * (resistance + STANDARD_IMPEDANCE)
            + reactance * reactance))

\* PhysicsUtils.calculateSWR(resistance, reactance) against 50 ohm
CalculateSWR(resistance, reactance) ==
    SwrOfGamma(GammaSquared(
        (resistance - STANDARD_IMPEDANCE) * (resistance - STANDARD_IMPEDANCE)
            + reactance * reactance,
        (resistance + STANDARD_IMPEDANCE) * (resistance + STANDARD_IMPEDANCE)
            + reactance * reactance))

InitSwr ==
    /\ model = UpdatedModel(DefaultValues)
    /\ result = None
    /\ impedance \in SwrSamples
    /\ guidance = None
    /\ PageAtRest

\* the impedance on the system side of the matching network changes
Present ==
    /\ \E z \in SwrSamples : impedance' = z
    /\ UNCHANGED <<model, result, guidance, pageVars, calcVars, viewVars>>

\* the page calls calculateSWR(systemImpedance.resistance, systemImpedance.reactance)
MeasureSwr ==
    /\ swr' = [args |-> impedance,
               value |-> CalculateSWR(impedance.resistance, impedance.reactance)]
    /\ UNCHANGED <<model, result, impedance, guidance, pageVars, cache, call, viewVars>>

NextSwr == Present \/ MeasureSwr

SpecSwr == InitSwr /\ [][NextSwr]_vars

\* ---- the visualization's NodesCalculator and the performance panel ---------
\* Both work from model.waveNumber and model.length alone; positions are
\* whole mm as above.

\* Math.ceil(electricalLength * 4)
CeilFourTimes(length, wavelength) == (4 * length + wavelength - 1) \div wavelength

\* Math.min(0.1, wavelength * 0.05), in mm
SceneEdgeBufferFixed(wavelength) == 100

SceneEdgeBuffer(wavelength) == MathMin(100, wavelength \div 20)

\* Math.max(0.1, wavelength * 0.05), in mm
SceneCenterBuffer(wavelength) == MathMax(100, wavelength \div 20)

\* for (n; n < max; n++) push (n + 0.5) * pi / k and its negative when the
\* position is below the limit and above the floor
RECURSIVE SceneHalfOddLoop(_, _, _, _, _, _)
SceneHalfOddLoop(n, max, acc, limit, floor, k) ==
    IF n >= max
    THEN acc
    ELSE LET position == HalfOddPosition(n, k)
         IN  SceneHalfOddLoop(n + 1, max,
                 IF position < limit /\ position > floor
                 THEN acc \o <<position, -position>>
                 ELSE acc,
                 limit, floor, k)

\* for (n; n < max; n++) push n * pi / k and its negative when below the limit
RECURSIVE SceneWholeLoop(_, _, _, _, _)
SceneWholeLoop(n, max, acc, limit, k) ==
    IF n >= max
    THEN acc
    ELSE LET position == WholePosition(n, k)
         IN  SceneWholeLoop(n + 1, max,
                 IF position < limit THEN acc \o <<position, -position>> ELSE acc,
                 limit, k)

SceneCurrentNodes(length, k) ==
    DedupSorted(
        SceneHalfOddLoop(0, CeilFourTimes(length, k),
            <<-HalfLength(length), HalfLength(length)>>,
            HalfLength(length) - SceneEdgeBuffer(k), -1, k))

SceneCurrentAntinodes(length, k) ==
    DedupSorted(
        SceneWholeLoop(1, CeilFourTimes(length, k), <<0>>,
            HalfLength(length) - SceneEdgeBuffer(k), k))

SceneVoltageNodes(length, k) ==
    DedupSorted(
        SceneWholeLoop(1, CeilFourTimes(length, k), <<0>>,
            HalfLength(length) - SceneEdgeBuffer(k), k))

SceneVoltageAntinodes(length, k) ==
    DedupSorted(
        SceneHalfOddLoop(0, CeilFourTimes(length, k),
            <<-HalfLength(length), HalfLength(length)>>,
            HalfLength(length) - SceneEdgeBuffer(k), SceneCenterBuffer(k), k))

\* NodesCalculator.calculateNodesAndAntinodes of antenna-visualization.tsx
SceneCalculateNodesAndAntinodes(m) ==
    [none |-> FALSE,
     current |-> [nodes |-> SceneCurrentNodes(m.length, WaveNumber(m)),
                  antinodes |-> SceneCurrentAntinodes(m.length, WaveNumber(m))],
     voltage |-> [nodes |-> SceneVoltageNodes(m.length, WaveNumber(m)),
                  antinodes |-> SceneVoltageAntinodes(m.length, WaveNumber(m))],
     harmonic |-> GetHarmonicNumber(ElectricalLength(m)),
     isResonant |-> Abs(ModelCalculateImpedance(m).reactance) * RESONANCE_PERCENTAGE_DIVISOR
                       < MathMax(RESONANCE_PERCENTAGE_DIVISOR * RESONANCE_REACTANCE_THRESHOLD,
                                 ModelCalculateImpedance(m).resistance),
     args |-> [length |-> m.length, wavelength |-> m.wavelength]]

\* [...new Set(xs)].length
SetSize(xs) == Cardinality(Range(xs))

\* the panel's own loops: one list per count, built in place
RECURSIVE PanelPushLoop(_, _, _, _, _, _, _)
PanelPushLoop(n, max, acc, halfOdd, limit, floor, wavelength) ==
    IF n >= max
    THEN acc
    ELSE LET position == IF halfOdd THEN ((2 * n + 1) * wavelength) \div 4
                                    ELSE (n * wavelength) \div 2
         IN  PanelPushLoop(n + 1, max,
                 IF position < limit /\ position > floor
                 THEN Append(Append(acc, position), -position)
                 ELSE acc,
                 halfOdd, limit, floor, wavelength)

\* calculateNodesAndAntinodes of antenna-performance.tsx, antennaModel given
PanelCalculateNodesAndAntinodes(m) ==
    LET wavelength == WaveNumber(m)
        halfLength == m.length \div 2
        maxNodes == CeilFourTimes(m.length, wavelength)
        edgeBuffer == MathMin(100, wavelength \div 20)
        centerBuffer == MathMax(100, wavelength \div 20)
        limit == halfLength - edgeBuffer
    IN  [none |-> FALSE,
         currentNodes |->
             SetSize(PanelPushLoop(0, maxNodes, <<-halfLength, halfLength>>,
                                   TRUE, limit, -1, wavelength)),
         voltageNodes |->
             SetSize(PanelPushLoop(1, maxNodes, <<0>>, FALSE, limit, -1, wavelength)),
         currentAntinodes |->
             SetSize(PanelPushLoop(1, maxNodes, <<0>>, FALSE, limit, -1, wavelength)),
         voltageAntinodes |->
             SetSize(PanelPushLoop(0, maxNodes, <<-halfLength, halfLength>>,
                                   TRUE, limit, centerBuffer, wavelength)),
         args |-> [length |-> m.length, wavelength |-> m.wavelength]]

\* wires of up to a metre, so that the loops stay short
SceneLengths == {100 * j : j \in 1..MaxShortLen} \cup {1000}

InitScene ==
    /\ model \in [length : SceneLengths, wavelength : Wavelengths,
                  feedPosition : FeedPercents,
                  wireDiameter : {DEFAULT_WIRE_DIAMETER}, matchingNetwork : {NullNetwork}]
    /\ result = None
    /\ impedance = DefaultImpedance
    /\ guidance = None
    /\ PageAtRest

\* the visualization calls its calculateNodesAndAntinodes(antennaModel)
Visualize ==
    /\ scene' = SceneCalculateNodesAndAntinodes(model)
    /\ UNCHANGED <<model, result, impedance, guidance, pageVars, calcVars, panel, animationVars, detail,
                   markerVars>>

\* the performance panel renders: nodesData = calculateNodesAndAntinodes()
CountNodes ==
    /\ panel' = PanelCalculateNodesAndAntinodes(model)
    /\ UNCHANGED <<model, result, impedance, guidance, pageVars, calcVars, scene, animationVars, detail,
                   markerVars>>

NextScene == SetFeedPosition \/ Visualize \/ CountNodes

SpecScene == InitScene /\ [][NextScene]_vars

\* ---- the animation loop ----------------------------------------------------
\* the degrees of one cycle
FULL_CIRCLE == 360

NextFrameUnwrapped(prev) == prev + 1

\* the updater of setAnimationTime in the interval callback
NextFrame(prev) == (prev + 1) % FULL_CIRCLE

ClearIntervalNever(running, held) == running

\* the cleanup of the animation effect: if (interval) clearInterval(interval)
ClearInterval(running, held) == IF held THEN running - 1 ELSE running

otherVars == <<model, result, impedance, guidance, pageVars, calcVars, scene, panel, detail,
               markerVars>>

\* toggleAnimation: setIsAnimating(!isAnimating)
ToggleAnimation ==
    /\ ~effectDue
    /\ isAnimating' = ~isAnimating
    /\ effectDue' = TRUE
    /\ UNCHANGED <<animationTime, timers, interval, lastTick, otherVars>>

\* resetAnimation: setIsAnimating(false); setAnimationTime(0)
ResetAnimation ==
    /\ ~effectDue
    /\ isAnimating' = FALSE
    /\ animationTime' = 0
    /\ effectDue' = isAnimating
    /\ UNCHANGED <<timers, interval, lastTick, otherVars>>

\* the animation effect after a change of isAnimating: the cleanup of the
\* run before, then a new interval if isAnimating
AnimationEffect ==
    /\ effectDue
    /\ timers' = ClearInterval(timers, interval) + (IF isAnimating THEN 1 ELSE 0)
    /\ interval' = isAnimating
    /\ effectDue' = FALSE
    /\ UNCHANGED <<isAnimating, animationTime, lastTick, otherVars>>

\* a running interval timer fires; it may do so before a due effect has run
Tick ==
    /\ timers > 0
    /\ animationTime' = NextFrame(animationTime)
    /\ lastTick' = [from |-> animationTime, to |-> NextFrame(animationTime)]
    /\ UNCHANGED <<isAnimating, timers, interval, effectDue, otherVars>>

NextAnimation == ToggleAnimation \/ ResetAnimation \/ AnimationEffect \/ Tick

SpecAnimation == InitPage /\ [][NextAnimation]_vars

\* ---- getDetailedResonanceInfo ----------------------------------------------
\* commonResonantLengths: wavelength * 0.25, 0.5, 0.75, 1.0 and 1.5, in mm
CommonResonantLengths(wavelength) ==
    << [length |-> wavelength \div 4, name |-> "Quarter Wave"],
       [length |-> (2 * wavelength) \div 4, name |-> "Half Wave"],
       [length |-> (3 * wavelength) \div 4, name |-> "Three Quarter"],
       [length |-> wavelength, name |-> "Full Wave"],
       [length |-> (6 * wavelength) \div 4, name |-> "One and Half"] >>

RECURSIVE ClosestLoopLast(_, _, _, _)
ClosestLoopLast(i, closest, candidates, currentLength) ==
    IF i > Len(candidates)
    THEN closest
    ELSE ClosestLoopLast(i + 1,
             IF Abs(currentLength - candidates[i].length)
                    <= Abs(currentLength - closest.length)
             THEN candidates[i] ELSE closest,
             candidates, currentLength)

\* the forEach: a candidate replaces the closest one only when strictly nearer
RECURSIVE ClosestLoop(_, _, _, _)
ClosestLoop(i, closest, candidates, currentLength) ==
    IF i > Len(candidates)
    THEN closest
    ELSE ClosestLoop(i + 1,
             IF Abs(currentLength - candidates[i].length)
                    < Abs(currentLength - closest.length)
             THEN candidates[i] ELSE closest,
             candidates, currentLength)

GetDetailedResonanceInfo(m) ==
    LET wavelength == ModelWavelength(m)
        currentLength == m.length
        candidates == CommonResonantLengths(wavelength)
        closestResonant == ClosestLoop(1, candidates[1], candidates, currentLength)
    IN  [none |-> FALSE,
         basicInfo |-> CalculateNodesAndAntinodes(m),
         guidance |-> GetResonanceGuidance(m),
         impedance |-> ModelCalculateImpedance(m),
         closestResonant |->
             [length |-> closestResonant.length,
              name |-> closestResonant.name,
              difference |-> currentLength - closestResonant.length,
              percentOff |-> [num |-> 100 * (currentLength - closestResonant.length),
                              den |-> closestResonant.length]],
         args |-> [length |-> m.length, wavelength |-> m.wavelength]]

\* wires of 0.05 to 0.5 m, fed at an end or at the centre
DetailLengths == {50 * j : j \in 1..(2 * MaxLongLen)}

InitDetail ==
    /\ model \in [length : DetailLengths, wavelength : Wavelengths,
                  feedPosition : {0, 50, 100},
                  wireDiameter : {DEFAULT_WIRE_DIAMETER}, matchingNetwork : {NullNetwork}]
    /\ result = None
    /\ impedance = DefaultImpedance
    /\ guidance = None
    /\ PageAtRest

\* a consumer calls getDetailedResonanceInfo(model)
Detail ==
    /\ detail' = GetDetailedResonanceInfo(model)
    /\ UNCHANGED <<model, result, impedance, guidance, pageVars, calcVars,
                   scene, panel, animationVars, markerVars>>

NextDetail == SetFrequency \/ Detail

SpecDetail == InitDetail /\ [][NextDetail]_vars

\* ---- properties ---------------------------------------------------------
\* ---- the feed-point marker of the 3D scene --------------------------------
\* the overlays the update effects test; the check boxes of the other keys
\* are left alone
VisibilityKeys == {"current", "voltage", "nodes"}

\* visibility.current || visibility.voltage || visibility.nodes
OverlayShown == visibility.current \/ visibility.voltage \/ visibility.nodes

\* scene.children.filter(child => !(child instanceof THREE.Mesh &&
\* child.userData.isAntenna)): the feed-point markers left in the scene
ClearAntennaMeshes(count) == 0

\* addLearnTennaVisualization: a new feedPoint mesh with userData.isAntenna
\* is added to the scene; nothing is removed from the scene's children
AddLearnTennaVisualization(count) == count + 1

\* the dependency arrays of the two update effects; antennaModel is the
\* same object for the life of the page
SceneDeps == <<antennaData, visibility, animationTime>>
AnimationDeps == <<animationTime, visibility>>

\* an update effect runs after a commit in which one of its dependencies changed
SceneEffectDue == effectDeps.scene # SceneDeps
AnimationEffectDue == effectDeps.animation # AnimationDeps
SceneSettled == ~SceneEffectDue /\ ~AnimationEffectDue

\* onCheckedChange of one item of the visibility menu
SetVisibility ==
    /\ SceneSettled
    /\ \E key \in VisibilityKeys :
         visibility' = [visibility EXCEPT ![key] = ~@]
    /\ UNCHANGED <<model, result, impedance, guidance, pageVars, calcVars,
                   scene, panel, animationVars, detail, markers, effectDeps>>

\* the user moves the wire-diameter slider once the scene is up to date
ChangeDesign == SceneSettled /\ MoveWireSlider

\* an interval timer fires once the effects of the commit before have run
AnimationFrame == SceneSettled /\ Tick

\* the model-update effect of Home runs after the effects of its child
CommitDesign == SceneSettled /\ ModelUpdateEffect

\* the first update effect: the antenna meshes are cleared and rebuilt, then
\* the overlays are added if one of them is shown
UpdateSceneEffect ==
    /\ phase # "render"
    /\ SceneEffectDue
    /\ markers' = IF OverlayShown
                  THEN AddLearnTennaVisualization(ClearAntennaMeshes(markers))
                  ELSE ClearAntennaMeshes(markers)
    /\ effectDeps' = [effectDeps EXCEPT !.scene = SceneDeps]
    /\ UNCHANGED <<model, result, impedance, guidance, pageVars, calcVars,
                   scene, panel, animationVars, detail, visibility>>

\* the second update effect, declared after the first and so run after it
UpdateAnimationEffect ==
    /\ phase # "render"
    /\ ~SceneEffectDue
    /\ AnimationEffectDue
    /\ markers' = IF OverlayShown
                  THEN AddLearnTennaVisualization(markers)
                  ELSE markers
    /\ effectDeps' = [effectDeps EXCEPT !.animation = AnimationDeps]
    /\ UNCHANGED <<model, result, impedance, guidance, pageVars, calcVars,
                   scene, panel, animationVars, detail, visibility>>

NextMarkers ==
    \/ SetVisibility
    \/ ChangeDesign
    \/ Render
    \/ CommitDesign
    \/ ToggleAnimation
    \/ AnimationEffect
    \/ AnimationFrame
    \/ UpdateSceneEffect
    \/ UpdateAnimationEffect

SpecMarkers == InitPage /\ [][NextMarkers]_vars

Calculated == result # None

\* the feed is at the centre / at an end of the wire whose result is held
CentreFed == 2 * result.args.feedPosition = FeedDen
EndFed == result.args.feedPosition \in {0, FeedDen}

\* x is the position -length/2, resp. +length/2
IsLowEnd(x) == 2 * x = -result.args.length
IsHighEnd(x) == 2 * x = result.args.length

\* C1: the current-nodes list and the voltage-antinodes list both contain
\* the two wire ends -length/2 and +length/2.
C1_EndsIncluded ==
    Calculated =>
        /\ \E x \in Range(result.current.nodes) : IsLowEnd(x)
        /\ \E x \in Range(result.current.nodes) : IsHighEnd(x)
        /\ \E x \in Range(result.voltage.antinodes) : IsLowEnd(x)
        /\ \E x \in Range(result.voltage.antinodes) : IsHighEnd(x)

\* an end-fed wire long enough to have internal nodes besides its ends
C1_Witness ==
    /\ Calculated
    /\ EndFed
    /\ Len(result.current.nodes) >= 4
    /\ Len(result.voltage.antinodes) >= 4
    /\ IsLowEnd(result.current.nodes[1])
    /\ IsHighEnd(result.voltage.antinodes[Len(result.voltage.antinodes)])

\* C2: when feedPosition is exactly 0.5 the current-antinodes list
\* contains the position 0.
C2_CentreAntinode ==
    (Calculated /\ CentreFed) => 0 \in Range(result.current.antinodes)

\* a centre-fed wire with internal antinodes on both sides of the centre
C2_Witness ==
    /\ Calculated
    /\ CentreFed
    /\ Len(result.current.antinodes) >= 3
    /\ 0 \in Range(result.current.antinodes)

StrictlyAscending(xs) == \A i \in 1..(Len(xs) - 1) : xs[i] < xs[i + 1]

\* C3: each of the four lists is in strictly ascending order and contains
\* no position twice.
C3_SortedDistinct ==
    Calculated =>
        \A xs \in {result.current.nodes, result.current.antinodes,
                   result.voltage.nodes, result.voltage.antinodes} :
            /\ StrictlyAscending(xs)
            /\ Cardinality(Range(xs)) = Len(xs)

\* an off-centre feed whose coordinate is also an internal antinode n*pi/k
\* below the edge bound, so that the position was pushed twice
C3_Witness ==
    /\ Calculated
    /\ ~CentreFed /\ ~EndFed
    /\ \E n \in 1..(MAX_HARMONICS - 1) :
          /\ (2 * result.args.feedPosition - FeedDen) * result.args.length
                = FeedDen * n * result.args.k
          /\ n * result.args.k < result.args.length - 2 * EDGE_BUFFER
    /\ Len(result.current.antinodes) >= 3
    /\ Len(result.voltage.nodes) >= 2

\* C4: the harmonic number equals max(1, round(2 * electricalLength)): it
\* is 1 when 2*electricalLength < 0.5, and otherwise the integer h with
\* h - 0.5 <= 2*electricalLength < h + 0.5; it is never below 1.
C4_HarmonicIsRounded ==
    Calculated =>
        LET e == result.args.electricalLength
            h == result.harmonic
        IN  /\ h >= 1
            /\ IF 4 * e.num < e.den
               THEN h = 1
               ELSE /\ (2 * h - 1) * e.den <= 4 * e.num
                    /\ 4 * e.num < (2 * h + 1) * e.den

\* 2*electricalLength = 1.5, a tie, rounds up to the second harmonic
C4_Witness ==
    /\ Calculated
    /\ 4 * result.args.electricalLength.num = 3 * result.args.electricalLength.den
    /\ result.harmonic = 2

\* e1 <= e2 for two ratios
RatioLeq(e1, e2) == e1.num * e2.den <= e2.num * e1.den

\* C5: the harmonic number is non-decreasing in electricalLength: the
\* harmonic returned for one electrical length and the harmonic of the
\* model's present electrical length are ordered as the two lengths are.
C5_HarmonicMonotone ==
    Calculated =>
        LET e1 == result.args.electricalLength
            e2 == ElectricalLength(model)
        IN  /\ RatioLeq(e1, e2) => result.harmonic <= GetHarmonicNumber(e2)
            /\ RatioLeq(e2, e1) => GetHarmonicNumber(e2) <= result.harmonic

\* a result on the eighth harmonic while the model has since grown to a
\* higher one
C5_Witness ==
    /\ Calculated
    /\ result.harmonic = MAX_HARMONICS
    /\ RatioLeq(result.args.electricalLength, ElectricalLength(model))
    /\ GetHarmonicNumber(ElectricalLength(model)) > MAX_HARMONICS

\* C6: for a feed that is not at the centre the current-antinodes list
\* contains the feed coordinate: -length/2 for feedPosition 0, +length/2
\* for feedPosition 1, (feedPosition - 0.5) * length for any other one.
C6_FeedAntinode ==
    (Calculated /\ ~CentreFed) =>
        LET p == result.args.feedPosition
            antinodes == Range(result.current.antinodes)
        IN  /\ p = 0 => \E x \in antinodes : IsLowEnd(x)
            /\ p = FeedDen => \E x \in antinodes : IsHighEnd(x)
            /\ p \notin {0, FeedDen} =>
                  \E x \in antinodes :
                      2 * FeedDen * x = (2 * p - FeedDen) * result.args.length

\* a feed a quarter of the wire from its low end, among internal antinodes
C6_Witness ==
    /\ Calculated
    /\ 4 * result.args.feedPosition = FeedDen
    /\ Len(result.current.antinodes) >= 3
    /\ \E x \in Range(result.current.antinodes) : 4 * x = -result.args.length

\* x lies strictly inside the edge bound: |x| < length/2 - EDGE_BUFFER
InsideEdge(x) == 2 * Abs(x) < result.args.length - 2 * EDGE_BUFFER

\* +/-(n + 0.5)*pi/k for n in 0..M-1, inside the edge bound
HalfOddSet ==
    {x \in {s * (((2 * n + 1) * result.args.k) \div 4) :
                n \in 0..(MAX_HARMONICS - 1), s \in {-1, 1}} : InsideEdge(x)}

\* +/-n*pi/k for n in 1..M-1, inside the edge bound
WholeSet ==
    {x \in {s * ((n * result.args.k) \div 2) :
                n \in 1..(MAX_HARMONICS - 1), s \in {-1, 1}} : InsideEdge(x)}

\* the wire ends, the feed coordinate
EndSet == {-(result.args.length \div 2), result.args.length \div 2}
FeedSet ==
    LET p == result.args.feedPosition
    IN  IF p = 0 THEN {-(result.args.length \div 2)}
        ELSE IF p = FeedDen THEN {result.args.length \div 2}
        ELSE {((2 * p - FeedDen) * result.args.length) \div (2 * FeedDen)}

\* C7: apart from the wire ends and the feed, the current nodes are exactly
\* +/-(n+0.5)*pi/k for n in 0..M-1 with |x| < H - eps, and the current
\* antinodes and the voltage nodes are exactly +/-n*pi/k for n in 1..M-1
\* with |x| < H - eps (the voltage nodes apart from the centre node of a
\* centre feed).
C7_InternalPositions ==
    Calculated =>
        /\ Range(result.current.nodes) \ EndSet = HalfOddSet \ EndSet
        /\ Range(result.current.antinodes) \ FeedSet = WholeSet \ FeedSet
        /\ Range(result.voltage.nodes) \ (IF CentreFed THEN {0} ELSE {})
              = WholeSet

\* a wire so long that n = M would still be inside the edge bound: the
\* lists stop at n = M-1
C7_Witness ==
    /\ Calculated
    /\ (2 * MAX_HARMONICS + 1) * result.args.k
          < 2 * result.args.length - 4 * EDGE_BUFFER
    /\ Len(result.current.nodes) = 2 + 2 * MAX_HARMONICS
    /\ Len(result.voltage.nodes) >= 2 * (MAX_HARMONICS - 1)

\* C8: the voltage-nodes list contains the centre position 0 if and only
\* if feedPosition is exactly 0.5.
C8_CentreNodeIffCentreFed ==
    Calculated => ((0 \in Range(result.voltage.nodes)) <=> CentreFed)

\* an off-centre or end feed with internal voltage nodes but none at 0
C8_Witness ==
    /\ Calculated
    /\ ~CentreFed
    /\ Len(result.voltage.nodes) >= 2
    /\ 0 \notin Range(result.voltage.nodes)

\* C9: every internal voltage antinode satisfies |x| < H - eps and
\* |x| > the centre buffer, and no position is in both the
\* voltage-antinodes and the voltage-nodes list (never the centre node 0).
C9_VoltageListsDisjoint ==
    Calculated =>
        /\ \A x \in Range(result.voltage.antinodes) :
              (~IsLowEnd(x) /\ ~IsHighEnd(x)) =>
                  (InsideEdge(x) /\ Abs(x) > EDGE_BUFFER)
        /\ Range(result.voltage.antinodes) \cap Range(result.voltage.nodes) = {}
        /\ 0 \notin Range(result.voltage.antinodes)

\* a centre-fed wire whose (0 + 0.5)*pi/k falls inside the centre buffer
\* and is left out, while other antinodes and the centre node are reported
C9_Witness ==
    /\ Calculated
    /\ CentreFed
    /\ result.args.k <= 4 * EDGE_BUFFER
    /\ Len(result.voltage.antinodes) >= 4
    /\ 0 \in Range(result.voltage.nodes)
    /\ Len(result.voltage.nodes) >= 3

\* C10: every list-building loop runs at most MAX_HARMONICS iterations;
\* current-nodes and voltage-antinodes hold at most 2 + 2*8 = 18 positions,
\* current-antinodes and voltage-nodes at most 1 + 2*7 = 15.
C10_BoundedLists ==
    Calculated =>
        /\ \A l \in DOMAIN result.iterations : result.iterations[l] <= MAX_HARMONICS
        /\ Len(result.current.nodes) <= 2 + 2 * MAX_HARMONICS
        /\ Len(result.voltage.antinodes) <= 2 + 2 * MAX_HARMONICS
        /\ Len(result.current.antinodes) <= 1 + 2 * (MAX_HARMONICS - 1)
        /\ Len(result.voltage.nodes) <= 1 + 2 * (MAX_HARMONICS - 1)

\* all four lists at their largest
C10_Witness ==
    /\ Calculated
    /\ Len(result.current.nodes) = 18
    /\ Len(result.voltage.antinodes) = 18
    /\ Len(result.current.antinodes) = 15
    /\ Len(result.voltage.nodes) = 15

\* |reactance| < max(15, 0.2 * resistance), for an impedance in centi-ohm
ResonantBand(z) ==
    \/ Abs(z.reactance) < 1500
    \/ 5 * Abs(z.reactance) < z.resistance

\* C11: the isResonant flag returned by calculateNodesAndAntinodes is true
\* exactly when the model's impedance has |reactance| < max(15, 0.2 * R).
C11_ResonantFlag ==
    Calculated => (result.isResonant <=> ResonantBand(result.args.impedance))

\* 15.01 ohm of reactance against 100 ohm of resistance: over the fixed
\* threshold, under a fifth of the resistance, flagged resonant
C11_Witness ==
    /\ Calculated
    /\ result.args.impedance = [resistance |-> 10000, reactance |-> 1501]
    /\ result.isResonant

Guided == guidance # None

RECURSIVE Gcd(_, _)
Gcd(a, b) == IF b = 0 THEN a ELSE Gcd(b, a % b)

\* a ratio in lowest terms; two ratios are equal when these agree
Lowest(r) ==
    LET g == Gcd(Abs(r.num), r.den)
    IN  [num |-> r.num \div g, den |-> r.den \div g]

RatioEq(r1, r2) == Lowest(r1) = Lowest(r2)

\* C12: getResonanceGuidance returns 'Resonant' with a null
\* lengthAdjustment exactly when the impedance is resonant; otherwise it
\* returns 'Not Resonant', advising to add wire (target = length +
\* adjustment) when reactance < -15 and to remove wire (target = length -
\* adjustment) when reactance > 15.
C12_GuidanceStatus ==
    Guided =>
        LET z == guidance.args.impedance
        IN  /\ guidance.status \in {"Resonant", "Not Resonant"}
            /\ (guidance.status = "Resonant") <=> ResonantBand(z)
            /\ (guidance.lengthAdjustment = Null) <=> ResonantBand(z)
            /\ (~ResonantBand(z) /\ z.reactance < -1500) =>
                  /\ guidance.guidance = "TooShortAdd"
                  /\ guidance.targetLength
                        = [base |-> guidance.args.length, sign |-> 1,
                           delta |-> guidance.lengthAdjustment]
            /\ (~ResonantBand(z) /\ z.reactance > 1500) =>
                  /\ guidance.guidance = "TooLongRemove"
                  /\ guidance.targetLength
                        = [base |-> guidance.args.length, sign |-> -1,
                           delta |-> guidance.lengthAdjustment]

\* 20 ohm of reactance against 50 ohm: not resonant, wire to be removed
C12_Witness ==
    /\ Guided
    /\ guidance.args.impedance = [resistance |-> 5000, reactance |-> 2000]
    /\ guidance.status = "Not Resonant"
    /\ guidance.guidance = "TooLongRemove"

\* C13: for a non-resonant impedance with |reactance| > 15 the
\* lengthAdjustment equals (|reactance| / FREE_SPACE_IMPEDANCE) *
\* wavelength * 0.1, the ratio
\* |reactance| * wavelength / (FREE_SPACE_IMPEDANCE * 10).
C13_AdjustmentByFreeSpaceImpedance ==
    (Guided /\ ~ResonantBand(guidance.args.impedance)
            /\ Abs(guidance.args.impedance.reactance) > 1500) =>
        LET adj == guidance.lengthAdjustment
            x == Abs(guidance.args.impedance.reactance)
        IN  RatioEq(adj, [num |-> x * guidance.args.wavelength,
                          den |-> FREE_SPACE_IMPEDANCE * 10])

\* C14: for every feed slider value p in 0..100, once the change has gone
\* through the form.watch subscription and the model-update effect,
\* antennaModel.feedPosition is p/100 (0 gives 0, 50 gives 0.5, 100 gives 1).
C14_FeedSliderReachesModel ==
    (event = "feed" /\ phase = "idle") => model.feedPosition = form.feedPoint

\* C15: in every render the derived values are read from a model whose
\* length, frequency, feedPosition, wireDiameter and matchingNetwork are
\* those of the antennaData of that same render.
C15_RenderSeesOwnData ==
    rendered # None => rendered.model = UpdatedModel(rendered.data)

\* C16: in every regime the impedance calculateImpedance returns has its
\* resistance in [0.1, 50000] ohm and its reactance in [-5000, 5000] ohm.
C16_ImpedanceWithinLimits ==
    call # None =>
        /\ impedance.resistance >= MIN_RESISTANCE
        /\ impedance.resistance <= MAX_RESISTANCE
        /\ impedance.reactance >= MIN_REACTANCE
        /\ impedance.reactance <= MAX_REACTANCE

\* an off-centre call whose raw resistance and reactance are both outside
\* the limits
C16_Witness ==
    /\ call # None
    /\ ~call.hit
    /\ call.args.feedPosition \notin {0, FeedScale \div 2, FeedScale}
    /\ RawImpedance(call.args, call.terms).resistance < MIN_RESISTANCE
    /\ RawImpedance(call.args, call.terms).reactance > MAX_REACTANCE
    /\ impedance = [resistance |-> MIN_RESISTANCE, reactance |-> MAX_REACTANCE]

\* the resistance of a fresh computation is fixed by the four inputs alone
ResistanceByInputs(args) ==
    \A t1, t2 \in TermSamples :
        ComputeImpedance(args, t1).resistance = ComputeImpedance(args, t2).resistance

\* C17: a call whose inputs round to an already cached key returns what a
\* fresh computation for that call's inputs would return (stated for the
\* resistance, where the inputs alone fix it).
C17_HitEqualsFresh ==
    (call # None /\ call.hit /\ ResistanceByInputs(call.args)) =>
        impedance.resistance = ComputeImpedance(call.args, call.terms).resistance

\* the ratio a balun selection stands for
SelectedRatio(balunRatio) ==
    CASE balunRatio = "1:1" -> 1
      [] balunRatio = "4:1" -> 4
      [] balunRatio = "9:1" -> 9
      [] balunRatio = "49:1" -> 49

\* C18: getMatchingNetwork maps '1:1', '4:1', '9:1', '49:1' to the keys of
\* MATCHING_NETWORKS with ratio 1, 4, 9, 49 and every other string to null,
\* so the model's matchingNetwork is always null or a key of MATCHING_NETWORKS.
C18_MatchingNetworkKnown ==
    /\ model.matchingNetwork \in {NullNetwork} \cup DOMAIN MATCHING_NETWORKS
    /\ \A b \in {"None", "", "2:1", "1:49", "none"} : GetMatchingNetwork(b) = NullNetwork
    /\ phase = "idle" =>
         IF antennaData.balunRatio \in BalunRatios
         THEN /\ model.matchingNetwork \in DOMAIN MATCHING_NETWORKS
              /\ MATCHING_NETWORKS[model.matchingNetwork].ratio
                     = SelectedRatio(antennaData.balunRatio)
         ELSE model.matchingNetwork = NullNetwork

\* an example with a 49:1 transformer has been loaded and has reached the model
C18_Witness ==
    /\ phase = "idle"
    /\ event = "example"
    /\ antennaData.balunRatio = "49:1"
    /\ model.matchingNetwork = "use49to1UnUn"

\* C19: swr(50, 0, 50) is 1.0, swr(R, X, 50) >= 1 whenever R > 0, and
\* swr(R, X, 50) = swr(R, -X, 50).
C19_SwrProperties ==
    swr # None =>
        /\ (swr.args = [resistance |-> STANDARD_IMPEDANCE, reactance |-> 0]
               => RatioEq(swr.value, [num |-> 1, den |-> 1]))
        /\ (swr.args.resistance > 0 => swr.value.num >= swr.value.den)
        /\ swr.value = CalculateSWR(swr.args.resistance, -swr.args.reactance)

\* a reactive load has been measured and its ratio is above 1
C19_Witness ==
    /\ swr # None
    /\ swr.args.reactance < 0
    /\ swr.value.num > swr.value.den
    /\ swr.value.num < MAX_SWR * swr.value.den

\* C20: every example design offered for loading satisfies the ranges of
\* formSchema, so the values a loaded example puts into the form pass
\* validation.
C20_ExamplesWithinSchema ==
    event = "example" => FormSchema(form)

\* C21: for one model, the four counts of the performance panel equal the
\* lengths of the four lists of the visualization's calculateNodesAndAntinodes.
C21_PanelCountsMatchScene ==
    (scene # None /\ panel # None /\ scene.args = panel.args) =>
        /\ panel.currentNodes = Len(scene.current.nodes)
        /\ panel.currentAntinodes = Len(scene.current.antinodes)
        /\ panel.voltageNodes = Len(scene.voltage.nodes)
        /\ panel.voltageAntinodes = Len(scene.voltage.antinodes)

\* both have run on a wire with internal positions in every list
C21_Witness ==
    /\ scene # None
    /\ panel # None
    /\ scene.args = panel.args
    /\ panel.currentNodes > 2
    /\ panel.currentAntinodes > 1
    /\ panel.voltageAntinodes > 2
    /\ panel.voltageAntinodes < panel.currentNodes

\* C22: after any sequence of feed-slider changes and example loads,
\* antennaModel.feedPosition lies in [0, 1].
C22_FeedPositionInUnitInterval ==
    model.feedPosition >= 0 /\ model.feedPosition <= FeedDen

\* an end-fed example has been loaded, then the slider moved to 1 %
C22_Witness ==
    /\ phase = "idle"
    /\ event = "feed"
    /\ rendered # None
    /\ rendered.model.feedPosition = FeedDen
    /\ model.feedPosition = 1

\* C23: after any sequence of play, pause, reset and timer ticks,
\* animationTime is a whole number in 0..359, and a tick replaces it by its
\* successor, 359 by 0.
C23_AnimationTimeWraps ==
    /\ animationTime \in 0..359
    /\ lastTick # None =>
         /\ lastTick.to \in 0..359
         /\ lastTick.to = IF lastTick.from = 359 THEN 0 ELSE lastTick.from + 1

\* a tick has just wrapped from 359 to 0 while the animation runs
C23_Witness ==
    /\ lastTick = [from |-> 359, to |-> 0]
    /\ animationTime = 0
    /\ isAnimating

\* C24: at most one interval timer is active at any time, and once a change
\* of isAnimating has gone through the effect a timer is active exactly
\* while isAnimating is true, so that after pause or reset no tick can
\* change animationTime.
C24_OneTimer ==
    /\ timers \in {0, 1}
    /\ ~effectDue => (timers = 1 <=> isAnimating)
    /\ (~effectDue /\ ~isAnimating) => ~ENABLED Tick

\* paused after having played: the timer is gone, the time stands still
C24_Witness ==
    /\ ~isAnimating
    /\ ~effectDue
    /\ timers = 0
    /\ lastTick # None
    /\ animationTime = lastTick.to
    /\ animationTime > 1

\* the five candidate lengths of a wavelength
CandidateLengths(wavelength) ==
    {(q * wavelength) \div 4 : q \in {1, 2, 3, 4, 6}}

\* C26: closestResonant is the candidate among 0.25, 0.5, 0.75, 1.0 and 1.5
\* wavelengths nearest to the current length, the shorter one on an exact
\* tie, and difference is the current length minus that candidate's length.
C26_ClosestResonant ==
    detail # None =>
        LET current == detail.args.length
            chosen == detail.closestResonant.length
        IN  /\ chosen \in CandidateLengths(detail.args.wavelength)
            /\ \A c \in CandidateLengths(detail.args.wavelength) :
                   \/ Abs(current - chosen) < Abs(current - c)
                   \/ (Abs(current - chosen) = Abs(current - c) /\ chosen <= c)
            /\ detail.closestResonant.difference = current - chosen

\* an exact tie: the wire is as far above one candidate as below the next
C26_Witness ==
    /\ detail # None
    /\ detail.closestResonant.difference > 0
    /\ detail.args.length + detail.closestResonant.difference
           \in CandidateLengths(detail.args.wavelength)

\* C25: after any sequence of balun check box events balunRatio is 'None',
\* '1:1', '4:1', '9:1' or '49:1' and at most one box is shown checked;
\* checking a box selects its ratio, unchecking the selected box gives 'None'.
C25_BalunCheckBoxes ==
    /\ form.balunRatio \in {"None"} \cup BalunRatios
    /\ Cardinality({ratio \in BalunRatios : BoxChecked(ratio)}) <= 1
    /\ \A ratio \in BalunRatios :
         /\ event = "check " \o ratio => form.balunRatio = ratio
         /\ event = "uncheck " \o ratio => form.balunRatio = "None"

\* the 49:1 box has been unchecked after another ratio had been replaced by it
C25_Witness ==
    /\ event = "uncheck 49:1"
    /\ form.balunRatio = "None"
    /\ rendered # None
    /\ rendered.data.balunRatio = "49:1"
    /\ rendered.model.matchingNetwork = "use4to1Balun"

\* C27: whenever getResonanceGuidance returns 'Not Resonant' its
\* lengthAdjustment is strictly positive (the 'Nearly Resonant' branch with
\* lengthAdjustment 0 is never taken).
C27_NotResonantAdjusts ==
    (Guided /\ guidance.status = "Not Resonant") =>
        /\ guidance.guidance # "NearlyResonant"
        /\ guidance.lengthAdjustment.num > 0

\* C28: no position appears both in the current-nodes list and in the
\* current-antinodes list of one calculateNodesAndAntinodes result, whatever
\* the feed position.
C28_CurrentListsDisjoint ==
    Calculated =>
        Range(result.current.nodes) \cap Range(result.current.antinodes) = {}

\* C29: every position of the four lists of a calculateNodesAndAntinodes
\* result lies within [-length/2, +length/2].
C29_PositionsOnWire ==
    Calculated =>
        \A list \in {result.current.nodes, result.current.antinodes,
                      result.voltage.nodes, result.voltage.antinodes} :
            \A x \in Range(list) : 2 * Abs(x) <= result.args.length

\* an off-centre feed on a wire long enough to hold internal positions in
\* every list
C29_Witness ==
    /\ Calculated
    /\ ~CentreFed
    /\ ~EndFed
    /\ Len(result.current.nodes) >= 4
    /\ Len(result.current.antinodes) >= 3
    /\ Len(result.voltage.nodes) >= 3
    /\ Len(result.voltage.antinodes) >= 4

\* C30: after any sequence of design changes, visibility toggles and
\* animation ticks, once the update effects have run the 3D scene holds at
\* most one feed-point marker mesh.
C30_OneFeedMarker == SceneSettled => markers <= 1

====
